---- MODULE Spec2Model ----
(***************************************************************************)
(* The x402 facilitator for Vara: the two route handlers                   *)
(*   POST /api/facilitator/verify   (src/lib/varaVerify.ts 26-233)         *)
(*   POST /api/facilitator/settle   (src/lib/varaVerify.ts 259-488)        *)
(* Each handler is a chain of gates that ends in a call of an external     *)
(* collaborator (useApi, balanceOf, verifyWithApi, settleWithApi).  The     *)
(* code between two awaits runs without interruption, so the model has one *)
(* action for the code up to the first await and one for the code that     *)
(* follows the return of each awaited call.  The collaborators' replies    *)
(* (a value or a thrown error) are the environment's choice.               *)
(***************************************************************************)
EXTENDS Integers, Sequences, FiniteSets, TLC

VARIABLES
  pc,        \* pc[r]: "idle", the awaited call, or "done"
  endpoint,  \* endpoint[r]: "verify" or "settle"
  body,      \* body[r]: the parsed request body
  local,     \* local[r]: the handler's local variables that live across awaits
  calls,     \* calls[r]: the collaborator calls made for r, in order, with replies
  resp       \* resp[r]: the response sent for r

vars == <<pc, endpoint, body, local, calls, resp>>

(***************************************************************************)
(* Bounds of the model.                                                    *)
(***************************************************************************)
\* x402Version ranges over 1..MaxVersion
MaxVersion == 2
\* balanceOf returns a balance in 0..MaxBalance
MaxBalance == 2

\* The request slots of the server.
Reqs == {"r1"}

(***************************************************************************)
(* Constants the handlers import from x402-vara/lib.                       *)
(***************************************************************************)
X402_VERSION == 1
X402_SCHEME == "exact"
validVaraNetworks == <<"vara", "vara-testnet">>

(***************************************************************************)
(* JavaScript values.  undefined and null are the two sentinels below;     *)
(* a template literal prints them as these very words.                     *)
(***************************************************************************)
Undefined == "undefined"
Null == "null"

RECURSIVE Join(_)
\* Array.prototype.toString: the elements joined by ","
Join(a) ==
  IF Len(a) = 0 THEN ""
  ELSE IF Len(a) = 1 THEN a[1]
  ELSE a[1] \o "," \o Join(Tail(a))

\* Array.prototype.includes
ArrayIncludes(a, x) == \E i \in 1..Len(a) : a[i] = x

\* String.prototype.includes
StringIncludes(s, needle) ==
  \E i \in 1..(Len(s) - Len(needle) + 1) : SubSeq(s, i, i + Len(needle) - 1) = needle

IsDigit(c) == c \in {"0", "1", "2", "3", "4", "5", "6", "7", "8", "9"}

DigitValue(c) ==
  CASE c = "0" -> 0 [] c = "1" -> 1 [] c = "2" -> 2 [] c = "3" -> 3 [] c = "4" -> 4
    [] c = "5" -> 5 [] c = "6" -> 6 [] c = "7" -> 7 [] c = "8" -> 8 [] c = "9" -> 9

RECURSIVE DecimalValue(_)
DecimalValue(s) ==
  IF Len(s) = 0 THEN 0
  ELSE 10 * DecimalValue(SubSeq(s, 1, Len(s) - 1)) + DigitValue(SubSeq(s, Len(s), Len(s)))

\* A thrown error: error.message and String(error) are read by the catch.
Error(name, message) == [name |-> name, message |-> message]

\* String(error) of an Error object
ErrorToString(e) == IF e.message = "" THEN e.name ELSE e.name \o ": " \o e.message

\* BigInt(string) over unsigned decimal strings: "" is 0n, anything that is
\* not all digits is a SyntaxError.
BigIntOf(s) ==
  IF \A i \in 1..Len(s) : IsDigit(SubSeq(s, i, i))
  THEN [threw |-> FALSE, value |-> DecimalValue(s)]
  ELSE [threw |-> TRUE,
        error |-> Error("SyntaxError", "Cannot convert " \o s \o " to a BigInt")]

\* Reading a property of undefined or null
PropertyOfUndefined(prop) ==
  Error("TypeError", "Cannot read properties of undefined (reading '" \o prop \o "')")
PropertyOfNull(prop) ==
  Error("TypeError", "Cannot read properties of null (reading '" \o prop \o "')")

(***************************************************************************)
(* The request bodies the model draws from.                                *)
(***************************************************************************)
Versions == 1..MaxVersion
PayloadSchemes == {"exact", "other"}
PayloadNetworks == {"vara", "vara-testnet"}
Assets == {"native", "0xtoken"}
RequiredSchemes == {"exact", "other"}
RequiredNetworks == {"", "vara", "vara-testnet", "eth"}
Amounts == {"", "1", "02", "1.5"}
Signatures == {Undefined, "0xsig"}
\* payload.transaction: undefined, or an object with the payer's address
Transactions == {[present |-> FALSE], [present |-> TRUE, address |-> "kGpayer"]}
\* paymentPayload.payload: undefined, or {signature, transaction}
InnerPayloads ==
  {[present |-> FALSE]}
    \cup {[present |-> TRUE, signature |-> s, transaction |-> t] :
            s \in Signatures, t \in Transactions}

\* What JSON.parse can return for the texts of the model: null or an object.
PaymentPayloads ==
  {[isNull |-> TRUE]}
    \cup {[isNull |-> FALSE, scheme |-> s, network |-> n, asset |-> a, payload |-> p] :
            s \in PayloadSchemes, n \in PayloadNetworks, a \in Assets, p \in InnerPayloads}

\* The UTF-8 texts a header can decode to: the empty text, a text that is
\* not JSON, or the JSON text of a value.
Texts ==
  {[json |-> "empty"], [json |-> "malformed"]}
    \cup {[json |-> "value", value |-> v] : v \in PaymentPayloads}

\* paymentHeader: absent, a number (truthy, not a string), or a string.  A
\* string is described by whether all of its characters are base64
\* characters and by the text its base64 characters encode.
Headers ==
  {[type |-> "undefined"], [type |-> "number"]}
    \cup {[type |-> "string", wellFormed |-> w, encodes |-> t] :
            w \in BOOLEAN, t \in Texts}

Requirements ==
  {[present |-> FALSE]}
    \cup {[present |-> TRUE, scheme |-> s, network |-> n, asset |-> a,
           maxAmountRequired |-> m] :
            s \in RequiredSchemes, n \in RequiredNetworks, a \in Assets, m \in Amounts}

Bodies ==
  [x402Version : Versions, paymentHeader : Headers, paymentRequirements : Requirements]

\* !paymentHeader: undefined and the empty string are falsy
HeaderFalsy(h) ==
  \/ h.type = "undefined"
  \/ h.type = "string" /\ h.wellFormed /\ h.encodes.json = "empty"

(***************************************************************************)
(* What a run of handler code between two awaits ends in: a response, a    *)
(* thrown error (which the handler's outer catch turns into a response),   *)
(* or an awaited collaborator call.                                        *)
(***************************************************************************)
Respond(status, json, timeHeader) ==
  [kind |-> "respond", status |-> status, json |-> json, timeHeader |-> timeHeader]
Throw(e) == [kind |-> "throw", error |-> e]
Await(fn, args, locals) == [kind |-> "await", fn |-> fn, args |-> args, locals |-> locals]

\* Headers of a response that sets no elapsed-time header
NoTimeHeader == "none"

\* A collaborator's reply: a returned value or a thrown error
Returned(v) == [pending |-> FALSE, threw |-> FALSE, value |-> v]
Threw(e) == [pending |-> FALSE, threw |-> TRUE, error |-> e]
\* The reply of a call that has not settled yet
Pending == [pending |-> TRUE, threw |-> FALSE]

\* error.message || String(error)
MessageOrString(e) == IF e.message # "" THEN e.message ELSE ErrorToString(e)

\* Buffer.from(paymentHeader, 'base64').toString('utf-8'): Node's base64
\* decoder skips the characters that are not base64 characters and decodes
\* the rest; it does not throw on a string.
Base64Decode(h) == [threw |-> FALSE, text |-> h.encodes]

\* JSON.parse(paymentPayloadJson)
JsonParse(t) ==
  IF t.json = "value" THEN [threw |-> FALSE, value |-> t.value] ELSE [threw |-> TRUE]

\* The "Request body" log line reads paymentRequirements.scheme before any gate.
LogRequestBodyThrows(b) == ~b.paymentRequirements.present

\* x402Version !== X402_VERSION
VersionUnsupported(v) == v # X402_VERSION

\* !paymentHeader || !paymentRequirements
FieldsMissing(h, q) == HeaderFalsy(h) \/ ~q.present

\* paymentRequirements.scheme !== X402_SCHEME
SchemeUnsupported(scheme) == scheme # X402_SCHEME

\* NetworkInvalid without the membership test
NetworkInvalidOnlyIfEmpty(network) == network = ""

\* !network || !validVaraNetworks.includes(network)
NetworkInvalid(network) == network = "" \/ ~ArrayIncludes(validVaraNetworks, network)

InvalidNetworkMessage(network) ==
  "Invalid Vara network: " \o network \o ". Expected one of " \o Join(validVaraNetworks)

\* BalanceInsufficient with <= for <
BalanceInsufficientOrEqual(balance, amount) == balance <= amount

\* balance < amount
BalanceInsufficient(balance, amount) == balance < amount

\* !signature || !transaction
SignatureOrTransactionMissing(p) ==
  p.payload.signature = Undefined \/ ~p.payload.transaction.present

(***************************************************************************)
(* POST /api/facilitator/verify                                            *)
(***************************************************************************)
VerifyFailure(reason) == [isValid |-> FALSE, invalidReason |-> reason]

\* lines 33-90: from request.json() to the await of useApi
VerifyStart(b) ==
  LET v == b.x402Version
      h == b.paymentHeader
      q == b.paymentRequirements
  IN IF LogRequestBodyThrows(b) THEN Throw(PropertyOfUndefined("scheme"))
     ELSE IF VersionUnsupported(v)
       THEN Respond(200, VerifyFailure("Unsupported x402 version: " \o ToString(v)),
                    NoTimeHeader)
     ELSE IF FieldsMissing(h, q)
       THEN Respond(400, VerifyFailure("Missing paymentHeader or paymentRequirements"),
                    NoTimeHeader)
     ELSE IF SchemeUnsupported(q.scheme)
       THEN Respond(200, VerifyFailure("Unsupported scheme: " \o q.scheme), NoTimeHeader)
     ELSE IF NetworkInvalid(q.network)
       THEN Respond(200, VerifyFailure(InvalidNetworkMessage(q.network)), NoTimeHeader)
     ELSE Await("useApi", [network |-> q.network],
                [network |-> q.network, api |-> Undefined])

\* VerifyMismatch without its asset comparison
VerifyMismatchSkipsAsset(p, q) ==
  IF p.scheme # q.scheme
    THEN "Scheme mismatch: expected " \o q.scheme \o ", got " \o p.scheme
  ELSE IF p.network # q.network
    THEN "Network mismatch: expected " \o q.network \o ", got " \o p.network
  ELSE ""

\* lines 133-156: the decoded payload against the requirements
VerifyMismatch(p, q) ==
  IF p.scheme # q.scheme
    THEN "Scheme mismatch: expected " \o q.scheme \o ", got " \o p.scheme
  ELSE IF p.network # q.network
    THEN "Network mismatch: expected " \o q.network \o ", got " \o p.network
  ELSE IF p.asset # q.asset
    THEN "Asset mismatch: expected " \o q.asset \o ", got " \o p.asset
  ELSE ""

\* lines 158-159: the amount, the arguments of balanceOf, and the await
VerifyBalanceQuery(p, q, l) ==
  LET amount == BigIntOf(q.maxAmountRequired)
  IN IF amount.threw THEN Throw(amount.error)
     ELSE IF ~p.payload.present THEN Throw(PropertyOfUndefined("transaction"))
     ELSE IF ~p.payload.transaction.present THEN Throw(PropertyOfUndefined("address"))
     ELSE Await("balanceOf",
                [api |-> l.api, address |-> p.payload.transaction.address,
                 asset |-> p.asset],
                [network |-> l.network, api |-> l.api, paymentPayload |-> p,
                 amount |-> amount.value])

\* lines 91-159: from the return of useApi to the await of balanceOf
VerifyAfterUseApi(b, l) ==
  LET h == b.paymentHeader
      q == b.paymentRequirements
  IN IF h.type # "string"
       THEN Throw(Error("TypeError", "paymentHeader.substring is not a function"))
     ELSE LET d == Base64Decode(h)
          IN IF d.threw
               THEN Respond(200,
                            VerifyFailure("Invalid base64 encoding in X-PAYMENT header"),
                            NoTimeHeader)
             ELSE LET j == JsonParse(d.text)
                  IN IF j.threw
                       THEN Respond(200, VerifyFailure("Invalid JSON in payment payload"),
                                    NoTimeHeader)
                     ELSE IF j.value.isNull THEN Throw(PropertyOfNull("x402Version"))
                     ELSE IF VerifyMismatch(j.value, q) # ""
                       THEN Respond(200, VerifyFailure(VerifyMismatch(j.value, q)),
                                    NoTimeHeader)
                     ELSE VerifyBalanceQuery(j.value, q, l)

\* lines 161-196: from the return of balanceOf to the await of verifyWithApi
VerifyAfterBalanceOf(b, l, balance) ==
  IF BalanceInsufficient(balance, l.amount)
    THEN Respond(200,
                 VerifyFailure("Insufficient asset balance: expected "
                                 \o ToString(l.amount) \o ", got " \o ToString(balance)),
                 NoTimeHeader)
  ELSE IF SignatureOrTransactionMissing(l.paymentPayload)
    THEN Respond(200, VerifyFailure("Invalid payload: missing signature or transaction"),
                 NoTimeHeader)
  ELSE Await("verifyWithApi", [api |-> l.api, paymentPayload |-> l.paymentPayload], l)

\* VerifyAfterVerifyWithApi without the test of result.isValid
VerifyIgnoresResult(b, l, result) ==
  Respond(200, [isValid |-> TRUE, invalidReason |-> Null], "X-Verification-Time")

\* lines 198-221: the delegate's result into the response
VerifyAfterVerifyWithApi(b, l, result) ==
  IF ~result.isValid
    THEN Respond(200, VerifyFailure(result.invalidReason), NoTimeHeader)
  ELSE Respond(200, [isValid |-> TRUE, invalidReason |-> Null], "X-Verification-Time")

\* lines 223-232: the outer catch
VerifyCatch(e) == Respond(500, VerifyFailure(MessageOrString(e)), NoTimeHeader)

(***************************************************************************)
(* POST /api/facilitator/settle                                            *)
(***************************************************************************)
\* SettleFailure leaving out the two fields it has no value for
SettleFailurePartial(error) == [success |-> FALSE, error |-> error]

SettleFailure(error) ==
  [success |-> FALSE, error |-> error, txHash |-> Null, networkId |-> Null]

\* lines 266-328: from request.json() to the await of useApi
SettleStart(b) ==
  LET v == b.x402Version
      h == b.paymentHeader
      q == b.paymentRequirements
  IN IF LogRequestBodyThrows(b) THEN Throw(PropertyOfUndefined("scheme"))
     ELSE IF VersionUnsupported(v)
       THEN Respond(200, SettleFailure("Unsupported x402 version: " \o ToString(v)),
                    NoTimeHeader)
     ELSE IF FieldsMissing(h, q)
       THEN Respond(400, SettleFailure("Missing paymentHeader or paymentRequirements"),
                    NoTimeHeader)
     ELSE IF SchemeUnsupported(q.scheme)
       THEN Respond(200, SettleFailure("Unsupported scheme: " \o q.scheme), NoTimeHeader)
     ELSE IF NetworkInvalid(q.network)
       THEN Respond(200, SettleFailure(InvalidNetworkMessage(q.network)), NoTimeHeader)
     ELSE Await("useApi", [network |-> q.network],
                [network |-> q.network, api |-> Undefined])

\* lines 374-393: the decoded payload against the requirements (no asset check)
SettleMismatch(p, q) ==
  IF p.scheme # q.scheme
    THEN "Scheme mismatch: expected " \o q.scheme \o ", got " \o p.scheme
  ELSE IF p.network # q.network
    THEN "Network mismatch: expected " \o q.network \o ", got " \o p.network
  ELSE ""

\* SettleSubmit remembering the payloads submitted by the requests in
\* flight: a payload already handed to settleWithApi is not handed over again
SettleSubmitOnce(p, l) ==
  IF ~p.payload.present THEN Throw(PropertyOfUndefined("signature"))
  ELSE IF SignatureOrTransactionMissing(p)
    THEN Respond(200, SettleFailure("Invalid payload: missing signature or transaction"),
                 NoTimeHeader)
  ELSE IF \E s \in DOMAIN calls : \E i \in 1..Len(calls[s]) :
            calls[s][i].fn = "settleWithApi" /\ calls[s][i].args.paymentPayload = p
    THEN Respond(409, SettleFailure("Transaction already used"), NoTimeHeader)
  ELSE Await("settleWithApi",
             [api |-> l.api, paymentPayload |-> p,
              settleOptions |-> [waitForFinalization |-> FALSE]],
             [network |-> l.network, api |-> l.api, paymentPayload |-> p])

\* lines 395-424: the presence gate and the await of settleWithApi
SettleSubmit(p, l) ==
  IF ~p.payload.present THEN Throw(PropertyOfUndefined("signature"))
  ELSE IF SignatureOrTransactionMissing(p)
    THEN Respond(200, SettleFailure("Invalid payload: missing signature or transaction"),
                 NoTimeHeader)
  ELSE Await("settleWithApi",
             [api |-> l.api, paymentPayload |-> p,
              settleOptions |-> [waitForFinalization |-> FALSE]],
             [network |-> l.network, api |-> l.api, paymentPayload |-> p])

\* lines 329-424: from the return of useApi to the await of settleWithApi
SettleAfterUseApi(b, l) ==
  LET h == b.paymentHeader
      q == b.paymentRequirements
  IN IF h.type # "string"
       THEN Throw(Error("TypeError", "paymentHeader.substring is not a function"))
     ELSE LET d == Base64Decode(h)
          IN IF d.threw
               THEN Respond(200, SettleFailure(InvalidNetworkMessage(l.network)),
                            NoTimeHeader)
             ELSE LET j == JsonParse(d.text)
                  IN IF j.threw
                       THEN Respond(200, SettleFailure("Invalid JSON in payment payload"),
                                    NoTimeHeader)
                     ELSE IF j.value.isNull THEN Throw(PropertyOfNull("x402Version"))
                     ELSE IF SettleMismatch(j.value, q) # ""
                       THEN Respond(200, SettleFailure(SettleMismatch(j.value, q)),
                                    NoTimeHeader)
                     ELSE SettleSubmit(j.value, l)

\* SettleAfterSettleWithApi throwing the reported failure instead of answering it
SettleThrowsReportedFailure(b, l, result) ==
  IF ~result.success
    THEN Throw(Error("Error", result.message))
  ELSE Respond(200,
               [success |-> TRUE, error |-> Null, txHash |-> result.txHash,
                networkId |-> l.network],
               "X-Settlement-Time")

\* lines 426-458: the delegate's result into the response
SettleAfterSettleWithApi(b, l, result) ==
  IF ~result.success
    THEN Respond(200, SettleFailure(result.message), NoTimeHeader)
  ELSE Respond(200,
               [success |-> TRUE, error |-> Null, txHash |-> result.txHash,
                networkId |-> l.network],
               "X-Settlement-Time")

\* lines 467-469: the duplicate-transaction test of the catch
IsDuplicateError(message) ==
  \/ StringIncludes(message, "SEQUENCE_NUMBER_TOO_OLD")
  \/ StringIncludes(message, "INVALID_SEQ_NUMBER")
  \/ StringIncludes(message, "already submitted")

\* lines 460-487: the outer catch
SettleCatch(e) ==
  IF IsDuplicateError(e.message)
    THEN Respond(409, SettleFailure("Transaction already used"), NoTimeHeader)
  ELSE Respond(500, SettleFailure(MessageOrString(e)), NoTimeHeader)

(***************************************************************************)
(* The collaborators' replies.                                             *)
(***************************************************************************)
\* Messages of the errors a collaborator throws or reports
Messages ==
  {"", "RPC connection failed", "SEQUENCE_NUMBER_TOO_OLD",
   "Error: INVALID_SEQ_NUMBER at nonce 7", "tx already submitted"}

Faults == {Threw(Error("Error", m)) : m \in Messages}

\* useApi(network): a handle bound to the network, or a fault
UseApiReplies(network) == {Returned([network |-> network, isConnected |-> TRUE])} \cup Faults

\* balanceOf(api, address, asset): a balance, or a fault
BalanceOfReplies == {Returned(n) : n \in 0..MaxBalance} \cup Faults

\* verifyWithApi(api)(payload): {isValid, invalidReason}, or a fault
VerifyWithApiReplies ==
  {Returned([isValid |-> TRUE, invalidReason |-> Null])}
    \cup {Returned([isValid |-> FALSE, invalidReason |-> m]) : m \in Messages \ {""}}
    \cup Faults

\* settleWithApi(api)(payload, options): {success, txHash, message}, or a fault
SettleWithApiReplies ==
  {Returned([success |-> TRUE, txHash |-> "0xhash", message |-> Undefined])}
    \cup {Returned([success |-> FALSE, txHash |-> Undefined, message |-> m]) :
            m \in Messages \ {""}}
    \cup Faults

(***************************************************************************)
(* The state machine.                                                      *)
(***************************************************************************)
NoBody == [x402Version |-> 0]
NoLocal == [network |-> Undefined, api |-> Undefined]
NoResponse == [status |-> 0]

Init ==
  /\ pc = [r \in Reqs |-> "idle"]
  /\ endpoint = [r \in Reqs |-> "none"]
  /\ body = [r \in Reqs |-> NoBody]
  /\ local = [r \in Reqs |-> NoLocal]
  /\ calls = [r \in Reqs |-> <<>>]
  /\ resp = [r \in Reqs |-> NoResponse]

\* try { ... } catch: a throw inside the handler becomes the catch's response
Handled(ep, out) ==
  IF out.kind = "throw"
    THEN IF ep = "verify" THEN VerifyCatch(out.error) ELSE SettleCatch(out.error)
  ELSE out

\* The reply of the awaited call, written into the call log
Reply(log, reply) == [log EXCEPT ![Len(log)].reply = reply]

\* The handler of r runs to its next await or to its response.
Continue(r, ep, out, log) ==
  LET o == Handled(ep, out)
  IN IF o.kind = "await"
       THEN /\ pc' = [pc EXCEPT ![r] = o.fn]
            /\ local' = [local EXCEPT ![r] = o.locals]
            /\ calls' = [calls EXCEPT ![r] =
                           Append(log, [fn |-> o.fn, args |-> o.args,
                                        reply |-> Pending])]
            /\ resp' = resp
     ELSE /\ pc' = [pc EXCEPT ![r] = "done"]
          /\ local' = local
          /\ calls' = [calls EXCEPT ![r] = log]
          /\ resp' = [resp EXCEPT ![r] =
                        [status |-> o.status, json |-> o.json, timeHeader |-> o.timeHeader]]

\* A request arrives: the handler runs from request.json() to its first await.
Receive(r) ==
  /\ pc[r] = "idle"
  /\ \E ep \in {"verify", "settle"}, b \in Bodies :
       /\ endpoint' = [endpoint EXCEPT ![r] = ep]
       /\ body' = [body EXCEPT ![r] = b]
       /\ Continue(r, ep, IF ep = "verify" THEN VerifyStart(b) ELSE SettleStart(b),
                   calls[r])

\* useApi settles: the handler decodes the header and runs the mismatch gates.
UseApiReturn(r) ==
  /\ pc[r] = "useApi"
  /\ \E reply \in UseApiReplies(local[r].network) :
       LET out == IF reply.threw THEN Throw(reply.error)
                  ELSE IF endpoint[r] = "verify"
                    THEN VerifyAfterUseApi(body[r], [local[r] EXCEPT !.api = reply.value])
                  ELSE SettleAfterUseApi(body[r], [local[r] EXCEPT !.api = reply.value])
       IN Continue(r, endpoint[r], out, Reply(calls[r], reply))
  /\ UNCHANGED <<endpoint, body>>

\* balanceOf settles (verify only): the balance gate and the presence gate.
BalanceOfReturn(r) ==
  /\ pc[r] = "balanceOf"
  /\ \E reply \in BalanceOfReplies :
       LET out == IF reply.threw THEN Throw(reply.error)
                  ELSE VerifyAfterBalanceOf(body[r], local[r], reply.value)
       IN Continue(r, endpoint[r], out, Reply(calls[r], reply))
  /\ UNCHANGED <<endpoint, body>>

\* verifyWithApi settles.
VerifyWithApiReturn(r) ==
  /\ pc[r] = "verifyWithApi"
  /\ \E reply \in VerifyWithApiReplies :
       LET out == IF reply.threw THEN Throw(reply.error)
                  ELSE VerifyAfterVerifyWithApi(body[r], local[r], reply.value)
       IN Continue(r, endpoint[r], out, Reply(calls[r], reply))
  /\ UNCHANGED <<endpoint, body>>

\* settleWithApi settles.
SettleWithApiReturn(r) ==
  /\ pc[r] = "settleWithApi"
  /\ \E reply \in SettleWithApiReplies :
       LET out == IF reply.threw THEN Throw(reply.error)
                  ELSE SettleAfterSettleWithApi(body[r], local[r], reply.value)
       IN Continue(r, endpoint[r], out, Reply(calls[r], reply))
  /\ UNCHANGED <<endpoint, body>>

\* The response has been sent; nothing of the request is kept.
Finish(r) ==
  /\ pc[r] = "done"
  /\ pc' = [pc EXCEPT ![r] = "idle"]
  /\ endpoint' = [endpoint EXCEPT ![r] = "none"]
  /\ body' = [body EXCEPT ![r] = NoBody]
  /\ local' = [local EXCEPT ![r] = NoLocal]
  /\ calls' = [calls EXCEPT ![r] = <<>>]
  /\ resp' = [resp EXCEPT ![r] = NoResponse]

Next ==
  \E r \in Reqs :
    \/ Receive(r)
    \/ UseApiReturn(r)
    \/ BalanceOfReturn(r)
    \/ VerifyWithApiReturn(r)
    \/ SettleWithApiReturn(r)
    \/ Finish(r)

Spec == Init /\ [][Next]_vars

(***************************************************************************)
(* The vocabulary of the properties: what a request asked and what the     *)
(* handler did for it, read from the request body, the call log and the    *)
(* response.                                                               *)
(***************************************************************************)
Done(r) == pc[r] = "done"
Header(r) == body[r].paymentHeader
Required(r) == body[r].paymentRequirements

\* The reason a response carries: invalidReason (verify) or error (settle)
Reason(r) ==
  IF endpoint[r] = "verify" THEN resp[r].json.invalidReason ELSE resp[r].json.error

\* The response body is the endpoint's failure shape with the given reason
FailureShape(r, reason) ==
  resp[r].json =
    IF endpoint[r] = "verify"
      THEN [isValid |-> FALSE, invalidReason |-> reason]
    ELSE [success |-> FALSE, error |-> reason, txHash |-> "null", networkId |-> "null"]

\* ... sent with the given status and no elapsed-time header
FailedWith(r, status, reason) ==
  /\ resp[r].status = status
  /\ resp[r].timeHeader = "none"
  /\ FailureShape(r, reason)

Called(r, fn) == \E i \in 1..Len(calls[r]) : calls[r][i].fn = fn

\* The call of fn made for r returned a value
ReturnedFrom(r, fn) ==
  \E i \in 1..Len(calls[r]) :
    calls[r][i].fn = fn /\ ~calls[r][i].reply.pending /\ ~calls[r][i].reply.threw

\* The value that call returned
ValueFrom(r, fn) ==
  (CHOOSE c \in {calls[r][i] : i \in 1..Len(calls[r])} : c.fn = fn).reply.value

\* The header is present: neither undefined nor the empty string
HeaderGiven(r) ==
  /\ Header(r).type # "undefined"
  /\ ~(Header(r).type = "string" /\ Header(r).wellFormed
         /\ Header(r).encodes.json = "empty")

\* The version, required-field, scheme and network gates
RequestGatesPass(r) ==
  /\ Required(r).present
  /\ body[r].x402Version = 1
  /\ HeaderGiven(r)
  /\ Required(r).scheme = "exact"
  /\ Required(r).network \in {"vara", "vara-testnet"}

\* ... and the chain-API handle was obtained and the header decoded to a
\* JSON object
PayloadDecoded(r) ==
  /\ RequestGatesPass(r)
  /\ ReturnedFrom(r, "useApi")
  /\ Header(r).type = "string"
  /\ Header(r).encodes.json = "value"
  /\ ~Header(r).encodes.value.isNull

Payload(r) == Header(r).encodes.value

\* ... from a header made of base64 characters only
CleanlyDecoded(r) == PayloadDecoded(r) /\ Header(r).wellFormed

NoDelegateCall(r) == ~Called(r, "verifyWithApi") /\ ~Called(r, "settleWithApi")

(***************************************************************************)
(* C1                                                                      *)
(***************************************************************************)
SchemeMismatchMessage(r) ==
  "Scheme mismatch: expected " \o Required(r).scheme \o ", got " \o Payload(r).scheme
NetworkMismatchMessage(r) ==
  "Network mismatch: expected " \o Required(r).network \o ", got " \o Payload(r).network
AssetMismatchMessage(r) ==
  "Asset mismatch: expected " \o Required(r).asset \o ", got " \o Payload(r).asset

SchemeDiffers(r) == Payload(r).scheme # Required(r).scheme
NetworkDiffers(r) == ~SchemeDiffers(r) /\ Payload(r).network # Required(r).network
AssetDiffers(r) ==
  /\ ~SchemeDiffers(r)
  /\ Payload(r).network = Required(r).network
  /\ Payload(r).asset # Required(r).asset

\* The decoded payload carries a signature and a transaction
PayloadComplete(r) ==
  /\ Payload(r).payload.present
  /\ Payload(r).payload.signature # "undefined"
  /\ Payload(r).payload.transaction.present

\* C1 as claimed: on verify and on settle alike, a decoded payload that
\* differs from the requirements in scheme, in network or in asset is
\* answered with the failure shape carrying the matching mismatch message,
\* and the delegate is not called.
C1_MismatchRejectedOnBothEndpoints ==
  \A r \in Reqs :
    Done(r) /\ CleanlyDecoded(r) /\ PayloadComplete(r) =>
      /\ SchemeDiffers(r) => FailureShape(r, SchemeMismatchMessage(r)) /\ NoDelegateCall(r)
      /\ NetworkDiffers(r) => FailureShape(r, NetworkMismatchMessage(r)) /\ NoDelegateCall(r)
      /\ AssetDiffers(r) => FailureShape(r, AssetMismatchMessage(r)) /\ NoDelegateCall(r)

\* C1 as amended: a scheme or network mismatch is rejected so on both
\* endpoints; an asset mismatch is rejected so on verify only (settle does
\* not compare the asset).
C1_MismatchRejected ==
  \A r \in Reqs :
    Done(r) /\ PayloadDecoded(r) =>
      /\ SchemeDiffers(r) => FailureShape(r, SchemeMismatchMessage(r)) /\ NoDelegateCall(r)
      /\ NetworkDiffers(r) => FailureShape(r, NetworkMismatchMessage(r)) /\ NoDelegateCall(r)
      /\ AssetDiffers(r) /\ endpoint[r] = "verify" =>
           FailureShape(r, AssetMismatchMessage(r)) /\ NoDelegateCall(r)

\* A verify request rejected for its asset, after its scheme and network matched
C1_Witness ==
  \E r \in Reqs :
    /\ Done(r) /\ PayloadDecoded(r) /\ endpoint[r] = "verify"
    /\ AssetDiffers(r)
    /\ resp[r].json.invalidReason = "Asset mismatch: expected native, got 0xtoken"

(***************************************************************************)
(* C2                                                                      *)
(***************************************************************************)
\* C2 as claimed: a request whose x402Version is not the supported one is
\* answered with the failure shape "Unsupported x402 version: {version}",
\* whatever its other fields are, and nothing is done before that.
C2_VersionGateDecidesFirst ==
  \A r \in Reqs :
    Done(r) /\ body[r].x402Version # 1 =>
      /\ FailureShape(r, "Unsupported x402 version: " \o ToString(body[r].x402Version))
      /\ calls[r] = <<>>

(***************************************************************************)
(* C3                                                                      *)
(***************************************************************************)
\* C3 as claimed: with the supported version, a body without paymentHeader
\* or without paymentRequirements is answered 400 with the failure shape
\* "Missing paymentHeader or paymentRequirements".
C3_MissingFieldsAnswered400 ==
  \A r \in Reqs :
    Done(r) /\ body[r].x402Version = 1
      /\ (Header(r).type = "undefined" \/ ~Required(r).present) =>
      FailedWith(r, 400, "Missing paymentHeader or paymentRequirements")

(***************************************************************************)
(* C4                                                                      *)
(***************************************************************************)
\* C4 as claimed: once the handle is obtained, a header that is not base64
\* is answered 200 "Invalid base64 encoding in X-PAYMENT header", and a
\* base64 header whose text is not JSON is answered 200 "Invalid JSON in
\* payment payload".
C4_DecodeFailuresNamed ==
  \A r \in Reqs :
    Done(r) /\ RequestGatesPass(r) /\ ReturnedFrom(r, "useApi")
      /\ Header(r).type = "string" =>
      /\ ~Header(r).wellFormed =>
           FailedWith(r, 200, "Invalid base64 encoding in X-PAYMENT header")
      /\ Header(r).wellFormed /\ Header(r).encodes.json # "value" =>
           FailedWith(r, 200, "Invalid JSON in payment payload")

(***************************************************************************)
(* C5                                                                      *)
(***************************************************************************)
\* The message with which the settlement attempt of r failed ("" if it did not)
SettlementFailureMessage(r) ==
  LET reply == calls[r][Len(calls[r])].reply
  IN IF reply.threw THEN reply.error.message
     ELSE IF ~reply.value.success THEN reply.value.message
     ELSE ""

NamesDuplicate(m) ==
  \/ StringIncludes(m, "SEQUENCE_NUMBER_TOO_OLD")
  \/ StringIncludes(m, "INVALID_SEQ_NUMBER")
  \/ StringIncludes(m, "already submitted")

\* C5 as claimed: a settlement attempt that fails with a message containing
\* one of the duplicate-submission markers, reported as a result or thrown,
\* is answered 409 with exactly the failure shape "Transaction already used".
C5_DuplicateAnswered409 ==
  \A r \in Reqs :
    Done(r) /\ endpoint[r] = "settle" /\ Called(r, "settleWithApi")
      /\ NamesDuplicate(SettlementFailureMessage(r)) =>
      FailedWith(r, 409, "Transaction already used")

(***************************************************************************)
(* C6                                                                      *)
(***************************************************************************)
\* The payload equals the requirements in what the endpoint compares
PayloadMatches(r) ==
  /\ ~SchemeDiffers(r)
  /\ Payload(r).network = Required(r).network
  /\ endpoint[r] = "verify" => Payload(r).asset = Required(r).asset

\* The balance gate of verify does not stand in the way: the amount is a
\* decimal integer and balanceOf, if asked, returned at least that much
BalanceNoObstacle(r) ==
  endpoint[r] = "verify" =>
    /\ ~BigIntOf(Required(r).maxAmountRequired).threw
    /\ Called(r, "balanceOf") =>
         /\ ReturnedFrom(r, "balanceOf")
         /\ ValueFrom(r, "balanceOf") >= BigIntOf(Required(r).maxAmountRequired).value

\* C6 as claimed: past the version, field, scheme, network, decode and
\* mismatch gates, a payload without signature or without transaction is
\* answered 200 "Invalid payload: missing signature or transaction", never 500.
C6_MissingSignatureOrTransactionRejected ==
  \A r \in Reqs :
    Done(r) /\ CleanlyDecoded(r) /\ PayloadMatches(r) /\ BalanceNoObstacle(r)
      /\ Payload(r).payload.present
      /\ (Payload(r).payload.signature = "undefined"
            \/ ~Payload(r).payload.transaction.present) =>
      FailedWith(r, 200, "Invalid payload: missing signature or transaction")

(***************************************************************************)
(* C7                                                                      *)
(***************************************************************************)
\* C7: past the version, field and scheme gates, a network that is empty or
\* not a valid Vara network is answered with the "Invalid Vara network"
\* rejection and useApi is not called; whenever useApi has been called, the
\* version, field, scheme and network gates have all passed.
C7_InvalidNetworkRejectedBeforeUseApi ==
  \A r \in Reqs :
    /\ Done(r) /\ Required(r).present /\ body[r].x402Version = 1 /\ HeaderGiven(r)
         /\ Required(r).scheme = "exact"
         /\ Required(r).network \notin {"vara", "vara-testnet"} =>
         /\ FailedWith(r, 200,
                       "Invalid Vara network: " \o Required(r).network
                         \o ". Expected one of vara,vara-testnet")
         /\ ~Called(r, "useApi")
    /\ Called(r, "useApi") =>
         /\ RequestGatesPass(r)
         /\ calls[r][1].fn = "useApi"
         /\ calls[r][1].args.network = Required(r).network

\* A request for a network outside the valid set, rejected without a handle
C7_Witness ==
  \E r \in Reqs :
    /\ Done(r) /\ Required(r).present /\ body[r].x402Version = 1 /\ HeaderGiven(r)
    /\ Required(r).scheme = "exact" /\ Required(r).network = "eth"
    /\ Reason(r) = "Invalid Vara network: eth. Expected one of vara,vara-testnet"
    /\ calls[r] = <<>>

(***************************************************************************)
(* C8                                                                      *)
(***************************************************************************)
StartsWith(s, prefix) == Len(s) >= Len(prefix) /\ SubSeq(s, 1, Len(prefix)) = prefix

\* The integer value of maxAmountRequired
AmountRequired(r) == DecimalValue(Required(r).maxAmountRequired)

\* C8: on verify, past the Requirement Validator gates, balanceOf is asked
\* for (payload.transaction.address, asset); a returned balance below the
\* integer value of maxAmountRequired is answered 200 "Insufficient asset
\* balance: expected {amount}, got {balance}", whether or not the signature
\* is present and without calling verifyWithApi; a balance equal to or above
\* the amount is not answered so.
C8_InsufficientBalanceRejected ==
  \A r \in Reqs :
    Done(r) /\ endpoint[r] = "verify" /\ PayloadDecoded(r) /\ PayloadMatches(r)
      /\ ReturnedFrom(r, "balanceOf") =>
      /\ calls[r][2].fn = "balanceOf"
      /\ calls[r][2].args.address = Payload(r).payload.transaction.address
      /\ calls[r][2].args.asset = Required(r).asset
      /\ ValueFrom(r, "balanceOf") < AmountRequired(r) =>
           /\ FailedWith(r, 200,
                         "Insufficient asset balance: expected "
                           \o ToString(AmountRequired(r)) \o ", got "
                           \o ToString(ValueFrom(r, "balanceOf")))
           /\ ~Called(r, "verifyWithApi")
      /\ ValueFrom(r, "balanceOf") >= AmountRequired(r) =>
           ~StartsWith(Reason(r), "Insufficient asset balance")

\* A payload without signature rejected for its balance: 1 against "02"
C8_Witness ==
  \E r \in Reqs :
    /\ Done(r) /\ endpoint[r] = "verify" /\ PayloadDecoded(r) /\ PayloadMatches(r)
    /\ ReturnedFrom(r, "balanceOf") /\ ValueFrom(r, "balanceOf") = 1
    /\ Required(r).maxAmountRequired = "02"
    /\ Payload(r).payload.signature = "undefined"
    /\ Reason(r) = "Insufficient asset balance: expected 2, got 1"

(***************************************************************************)
(* C9                                                                      *)
(***************************************************************************)
\* Every gate of verify passed, in order, and verifyWithApi returned isValid true
AllVerifyGatesPass(r) ==
  /\ PayloadDecoded(r)
  /\ PayloadMatches(r)
  /\ ReturnedFrom(r, "balanceOf")
  /\ ValueFrom(r, "balanceOf") >= AmountRequired(r)
  /\ PayloadComplete(r)
  /\ ReturnedFrom(r, "verifyWithApi")
  /\ ValueFrom(r, "verifyWithApi").isValid

\* C9: verify answers isValid:true exactly when every gate passed and
\* verifyWithApi returned isValid true; that answer is 200
\* {isValid:true, invalidReason:null} with the X-Verification-Time header,
\* and no other answer of verify carries the header.
C9_ValidIffAllGatesPass ==
  \A r \in Reqs :
    Done(r) /\ endpoint[r] = "verify" =>
      /\ resp[r].json.isValid <=> AllVerifyGatesPass(r)
      /\ resp[r].json.isValid =>
           resp[r] = [status |-> 200,
                      json |-> [isValid |-> TRUE, invalidReason |-> "null"],
                      timeHeader |-> "X-Verification-Time"]
      /\ ~resp[r].json.isValid => resp[r].timeHeader = "none"

\* A verify request answered isValid:true
C9_Witness ==
  \E r \in Reqs :
    /\ Done(r) /\ endpoint[r] = "verify"
    /\ resp[r].json.isValid
    /\ resp[r].timeHeader = "X-Verification-Time"
    /\ AllVerifyGatesPass(r)

(***************************************************************************)
(* C10                                                                     *)
(***************************************************************************)
\* C10: a failure the delegate reports as a result (verifyWithApi: isValid
\* false with a reason; settleWithApi: success false with a message that
\* names no duplicate submission) is answered 200 with the failure shape
\* carrying that reason or message unchanged.
C10_DelegateFailurePropagated ==
  \A r \in Reqs :
    Done(r) =>
      /\ endpoint[r] = "verify" /\ ReturnedFrom(r, "verifyWithApi")
           /\ ~ValueFrom(r, "verifyWithApi").isValid =>
           FailedWith(r, 200, ValueFrom(r, "verifyWithApi").invalidReason)
      /\ endpoint[r] = "settle" /\ ReturnedFrom(r, "settleWithApi")
           /\ ~ValueFrom(r, "settleWithApi").success
           /\ ~NamesDuplicate(ValueFrom(r, "settleWithApi").message) =>
           FailedWith(r, 200, ValueFrom(r, "settleWithApi").message)

\* A settlement the delegate reported as failed, answered with its message
C10_Witness ==
  \E r \in Reqs :
    /\ Done(r) /\ endpoint[r] = "settle" /\ ReturnedFrom(r, "settleWithApi")
    /\ ~ValueFrom(r, "settleWithApi").success
    /\ ValueFrom(r, "settleWithApi").message = "RPC connection failed"
    /\ resp[r].status = 200
    /\ resp[r].json.error = "RPC connection failed"

(***************************************************************************)
(* C11                                                                     *)
(***************************************************************************)
\* A value that is a string: neither null nor undefined
IsString(x) == x # "null" /\ x # "undefined"

\* The response of a verify request is a complete VerifyResponse
VerifyShape(r) ==
  /\ DOMAIN resp[r].json = {"isValid", "invalidReason"}
  /\ resp[r].json.isValid \in BOOLEAN
  /\ resp[r].json.isValid => resp[r].json.invalidReason = "null"
  /\ ~resp[r].json.isValid => IsString(resp[r].json.invalidReason)
  /\ resp[r].status \in {200, 400, 500}

\* The response of a settle request is a complete SettleResponse
SettleShape(r) ==
  /\ DOMAIN resp[r].json = {"success", "error", "txHash", "networkId"}
  /\ resp[r].json.success \in BOOLEAN
  /\ resp[r].json.success =>
       /\ resp[r].json.error = "null"
       /\ ReturnedFrom(r, "settleWithApi")
       /\ resp[r].json.txHash = ValueFrom(r, "settleWithApi").txHash
       /\ IsString(resp[r].json.txHash)
       /\ resp[r].json.networkId = Required(r).network
       /\ IsString(resp[r].json.networkId)
  /\ ~resp[r].json.success =>
       /\ IsString(resp[r].json.error)
       /\ resp[r].json.txHash = "null"
       /\ resp[r].json.networkId = "null"
  /\ resp[r].status \in {200, 400, 409, 500}

\* C11: every response, on every path including the outer catch, is a
\* complete object of its endpoint's shape with a status in
\* {200, 400, 409, 500}: verify's invalidReason is null exactly when isValid
\* is true and a string otherwise; settle's success:true has error null, the
\* delegate's txHash and the required network, its success:false a string
\* error with txHash and networkId null; 409 comes from settle only.
C11_ResponsesComplete ==
  \A r \in Reqs :
    Done(r) => IF endpoint[r] = "verify" THEN VerifyShape(r) ELSE SettleShape(r)

\* A settle request answered 409 by the outer catch, in the full shape
C11_Witness ==
  \E r \in Reqs :
    /\ Done(r) /\ endpoint[r] = "settle"
    /\ resp[r].status = 409
    /\ resp[r].json =
         [success |-> FALSE, error |-> "Transaction already used",
          txHash |-> "null", networkId |-> "null"]

(***************************************************************************)
(* Requests handled concurrently.  The runtime starts a handler invocation *)
(* per request and interleaves the invocations at their awaits.  Two       *)
(* requests are in flight at once; their bodies pass the request gates and *)
(* carry a complete payload whose network does or does not match.          *)
(***************************************************************************)
ConcReqs == {"r1", "r2"}

ConcPayloads ==
  {[isNull |-> FALSE, scheme |-> "exact", network |-> n, asset |-> "native",
    payload |-> [present |-> TRUE, signature |-> "0xsig",
                 transaction |-> [present |-> TRUE, address |-> "kGpayer"]]] :
     n \in PayloadNetworks}

ConcBodies ==
  {[x402Version |-> X402_VERSION,
    paymentHeader |-> [type |-> "string", wellFormed |-> TRUE,
                       encodes |-> [json |-> "value", value |-> p]],
    paymentRequirements |-> [present |-> TRUE, scheme |-> "exact", network |-> "vara",
                             asset |-> "native", maxAmountRequired |-> "1"]] :
     p \in ConcPayloads}

InitConc ==
  /\ pc = [r \in ConcReqs |-> "idle"]
  /\ endpoint = [r \in ConcReqs |-> "none"]
  /\ body = [r \in ConcReqs |-> NoBody]
  /\ local = [r \in ConcReqs |-> NoLocal]
  /\ calls = [r \in ConcReqs |-> <<>>]
  /\ resp = [r \in ConcReqs |-> NoResponse]

\* A request arrives while another may be in flight.
ReceiveConc(r) ==
  /\ pc[r] = "idle"
  /\ \E ep \in {"verify", "settle"}, b \in ConcBodies :
       /\ endpoint' = [endpoint EXCEPT ![r] = ep]
       /\ body' = [body EXCEPT ![r] = b]
       /\ Continue(r, ep, IF ep = "verify" THEN VerifyStart(b) ELSE SettleStart(b),
                   calls[r])

NextConc ==
  \E r \in ConcReqs :
    \/ ReceiveConc(r)
    \/ UseApiReturn(r)
    \/ BalanceOfReturn(r)
    \/ VerifyWithApiReturn(r)
    \/ SettleWithApiReturn(r)
    \/ Finish(r)

SpecConc == InitConc /\ [][NextConc]_vars

(***************************************************************************)
(* C12                                                                     *)
(***************************************************************************)
\* Everything the server holds for request r
StateOf(r) == <<pc[r], endpoint[r], body[r], local[r], calls[r], resp[r]>>

CallCount(r, fn) == Cardinality({i \in 1..Len(calls[r]) : calls[r][i].fn = fn})

\* The settle request r passed every gate of settle
SettleGatesPass(r) ==
  /\ pc[r] # "idle"
  /\ endpoint[r] = "settle"
  /\ PayloadDecoded(r)
  /\ ~SchemeDiffers(r)
  /\ Payload(r).network = Required(r).network
  /\ PayloadComplete(r)

\* r handed its payload to settleWithApi, once, not waiting for finality
Submitted(r) ==
  /\ CallCount(r, "settleWithApi") = 1
  /\ \E i \in 1..Len(calls[r]) :
       /\ calls[r][i].fn = "settleWithApi"
       /\ calls[r][i].args.paymentPayload = Payload(r)
       /\ ~calls[r][i].args.settleOptions.waitForFinalization

\* In every state: a request calls useApi at most once and its delegate at
\* most once; two answered requests with the same endpoint, body and
\* collaborator replies have the same response; a settle request that
\* passed the gates has submitted its payload, whatever the other requests
\* carry or have done.
C12_Independent ==
  /\ \A r \in ConcReqs :
       /\ CallCount(r, "useApi") <= 1
       /\ CallCount(r, "verifyWithApi") + CallCount(r, "settleWithApi") <= 1
       /\ SettleGatesPass(r) => Submitted(r)
  /\ \A r, s \in ConcReqs :
       Done(r) /\ Done(s) /\ endpoint[r] = endpoint[s] /\ body[r] = body[s]
         /\ calls[r] = calls[s] => resp[r] = resp[s]

\* In every step: what the server holds for one request changes, and
\* nothing it holds for any other request does.
C12_Isolated ==
  \A r, s \in ConcReqs :
    r # s /\ StateOf(r)' # StateOf(r) => StateOf(s)' = StateOf(s)

\* C12: under any interleaving of concurrently handled requests the handlers
\* share no mutable state: a step of one request changes nothing of
\* another, a response depends only on the request's own body and on the
\* replies to its own calls, a request calls useApi at most once and its
\* delegate at most once, and each of two settle requests with the same
\* payload that pass the gates invokes settleWithApi with
\* waitForFinalization false: the second is never suppressed.
C12_NoSharedState == []C12_Independent /\ [][C12_Isolated]_vars

\* Two settle requests with the same body, both submitted, with two outcomes
C12_Witness ==
  /\ Done("r1") /\ Done("r2")
  /\ body["r1"] = body["r2"]
  /\ SettleGatesPass("r1") /\ SettleGatesPass("r2")
  /\ Submitted("r1") /\ Submitted("r2")
  /\ resp["r1"].json.success
  /\ ~resp["r2"].json.success

====
